---- MODULE Spec2Model ----
(***************************************************************************)
(* Fuzzy thermal control (src/thermal.py): MembershipFunction, Plant,      *)
(* ThermalControl and the main simulation loop.                            *)
(*                                                                         *)
(* Numbers.  Python floats are modelled by exact integers:                 *)
(*   - a temperature, an error or a crisp output is an integer number of   *)
(*     thousandths of a degree (UNIT per degree), so that round(x, 2) is a *)
(*     real conversion (to a multiple of CENT) and not the identity;       *)
(*   - a membership degree d in [0,1] is the integer d * DEG;              *)
(*   - a sample of np.linspace(-100, 100, 200) is TempNum(i) / TEMPDEN.    *)
(* All intermediate values stay below 2^31.  Where the decimal value that  *)
(* round(x, 2) rounds is exactly half way between two hundredths, the      *)
(* binary double the program holds lies on one side or the other, so both  *)
(* neighbours are possible outcomes (Round2Set); everywhere else the       *)
(* rounding is determined.  The test `denominator == 0` is the other place *)
(* where the double decides: an error or a change of error that is exactly *)
(* on the outer edge of its membership function, and that an inexact       *)
(* subtraction produced, may be a double just inside the edge, with a      *)
(* degree just above 0 (Residue) in place of 0 (DegreesAt).                *)
(***************************************************************************)
EXTENDS Integers, Sequences, FiniteSets, TLC

VARIABLES
    \* ThermalControl (self.*) and the main loop
    target_temp, environment_temp, current_error, previous_error, change_error,
    table, aggregation, temperature_history, COG,
    \* whether the double in self.current_error / self.change_error is known
    \* to equal the decimal value held above: "exact" or "inexact"
    current_error_fp, change_error_fp,
    action,         \* the main loop's local `action`
    pc,             \* the main loop's position
    keys,           \* the keys check_key last found pressed
    \* history variables of the run (not program state)
    initial_temp,   \* the constructor's initial_temp
    steps,          \* completed loop iterations
    committed,      \* environment_temp at each record_history, oldest first
    nkeys,          \* check_key calls that found a key pressed
    \* a MembershipFunction under construction (append / fuzzify_from)
    mf_formulas, mf_raised, mf_degree,
    mf_call,        \* the last call made on it and its arguments
    \* one call of Plant.apply_change
    plant_env, plant_crisp, plant_result

loopVars == <<target_temp, environment_temp, current_error, previous_error,
              change_error, table, aggregation, temperature_history, COG,
              current_error_fp, change_error_fp,
              action, pc, keys, initial_temp, steps, committed, nkeys>>
mfVars == <<mf_formulas, mf_raised, mf_degree, mf_call>>
plantVars == <<plant_env, plant_crisp, plant_result>>
vars == <<loopVars, mfVars, plantVars>>

----------------------------------------------------------------------------
(* Scales and bounds                                                       *)

UNIT == 10 * 100              \* integer units per degree
CENT == UNIT \div 100         \* 0.01 degree, the grain of round(x, 2)
DEG == 50000 * 199            \* integer units per membership degree 1.0

\* Bounds of the model: loop iterations with the keyboard in play, loop
\* iterations of an undisturbed run, check_key calls that find a key pressed.
MaxSteps == 6
MaxRunSteps == 53
MaxKeys == 2

Abs(x) == IF x < 0 THEN -x ELSE x
Min2(a, b) == IF b < a THEN b ELSE a
Max2(a, b) == IF b > a THEN b ELSE a

\* round(n/d, 2) for the value n/d (in UNITs, d > 0): the possible results.
Round2Set(n, d) ==
    LET g == CENT * d
        q == n \div g
        r == n % g
    IN  IF 2 * r < g THEN {CENT * q}
        ELSE IF 2 * r > g THEN {CENT * (q + 1)}
        ELSE {CENT * q, CENT * (q + 1)}

----------------------------------------------------------------------------
(* class MembershipFunction                                                *)

NoFormulas == [n \in {} |-> <<>>]

\* append: the dict after the call and the exception raised, if any.
appendAcceptsFive(formulas, formula_name, points) ==
    IF ~(3 <= Len(points) /\ Len(points) <= 5)
    THEN [raised |-> "InvalidPoints", formulas |-> formulas]
    ELSE [raised |-> "none",
          formulas |-> [n \in DOMAIN formulas \cup {formula_name} |->
                           IF n = formula_name THEN points ELSE formulas[n]]]

append(formulas, formula_name, points) ==
    IF ~(3 <= Len(points) /\ Len(points) <= 4)
    THEN [raised |-> "InvalidPoints", formulas |-> formulas]
    ELSE [raised |-> "none",
          formulas |-> [n \in DOMAIN formulas \cup {formula_name} |->
                           IF n = formula_name THEN points ELSE formulas[n]]]

\* One ramp term n/d of fuzzify_from, times DEG, cut to [0, DEG].  The cut
\* does not change max(min(r1, 1, r2), 0), and for non-decreasing points it
\* does not change max(min(r1, r2), 0) either (r1 >= 1 only where r2 <= 1).
\* Exact when d divides DEG, which holds for every width used here.
Ramp(n, d) ==
    IF n <= 0 THEN 0
    ELSE IF n >= d THEN DEG
    ELSE n * (DEG \div d)

\* fuzzify_from at x = xn/xd degrees: the degree, or the exception raised.
\* Every argument of min(...) is evaluated before min is called, so a zero
\* width on either side raises whatever x is.  (x is a Python number here, as
\* current_error and change_error are; for a numpy scalar the same division
\* gives inf or nan instead.  No ramp of the default configuration has zero
\* width.)
fuzzify_from(formulas, formula_name, xn, xd) ==
    IF formula_name \notin DOMAIN formulas
    THEN [raised |-> "KeyError", value |-> 0]
    ELSE LET p == formulas[formula_name] IN
         IF Len(p) = 4
         THEN IF p[2] - p[1] = 0 \/ p[4] - p[3] = 0
              THEN [raised |-> "ZeroDivisionError", value |-> 0]
              ELSE [raised |-> "none",
                    value |-> Max2(Min2(Ramp(xn - p[1] * xd, (p[2] - p[1]) * xd),
                                        Min2(DEG,
                                             Ramp(p[4] * xd - xn, (p[4] - p[3]) * xd))),
                                   0)]
         ELSE IF p[2] - p[1] = 0 \/ p[3] - p[2] = 0
              THEN [raised |-> "ZeroDivisionError", value |-> 0]
              ELSE [raised |-> "none",
                    value |-> Max2(Min2(Ramp(xn - p[1] * xd, (p[2] - p[1]) * xd),
                                        Ramp(p[3] * xd - xn, (p[3] - p[2]) * xd)),
                                   0)]

\* fuzzify_all: every formula's degree at x (no formula of the default
\* configuration raises).
fuzzify_all(formulas, xn, xd) ==
    [key \in DOMAIN formulas |-> fuzzify_from(formulas, key, xn, xd).value]

\* The degree fuzzify_from returns for a double just inside an outer
\* breakpoint, e.g. (1000 - 999.9999999999999) / (1000 - 999) = 1.1e-13:
\* above 0 and below every other nonzero degree of the model.  Clipping a
\* curve at it (min) leaves it on the curve's support and 0 elsewhere.
Residue == 1

\* fuzzify_all for the double the program holds where the model holds
\* x = xn/xd: the possible dicts of degrees.  They are the degrees at x,
\* except where x is outside every term (all degrees 0) but exactly on the
\* first or last breakpoint of some term, and the double is the rounded
\* result of an inexact subtraction: it may then lie just inside that term.
\* (Inside the function's support a deviation of the double changes the
\* degrees by parts in 10^13, which the model leaves out.)
DegreesAt(formulas, xn, xd, fp) ==
    LET at == fuzzify_all(formulas, xn, xd)
        edged == {key \in DOMAIN formulas :
                     LET p == formulas[key]
                     IN  xn = p[1] * xd \/ xn = p[Len(p)] * xd}
    IN  IF fp = "inexact" /\ \A key \in DOMAIN formulas : at[key] = 0
        THEN {at} \cup {[key \in DOMAIN formulas |->
                            IF key = inside THEN Residue ELSE at[key]]
                        : inside \in edged}
        ELSE {at}

----------------------------------------------------------------------------
(* class Plant                                                             *)

change_value == 3
max_output == 100

\* apply_change: the possible (environment_temp, action) results.
apply_changeNoDeadBand(environment_temp_in, crisp_output) ==
    LET applied == Round2Set(change_value * Min2(Abs(crisp_output), max_output * UNIT),
                             max_output)
    IN  UNION { IF crisp_output >= 0
                THEN {<<e, "heater">> : e \in Round2Set(environment_temp_in + ac, 1)}
                ELSE {<<e, "cooler">> : e \in Round2Set(environment_temp_in - ac, 1)}
              : ac \in applied }

apply_change(environment_temp_in, crisp_output) ==
    LET applied == Round2Set(change_value * Min2(Abs(crisp_output), max_output * UNIT),
                             max_output)
    IN  UNION { IF Abs(crisp_output) < CENT \/ ac < CENT
                THEN {<<e, "no_change">> : e \in Round2Set(environment_temp_in, 1)}
                ELSE IF crisp_output > 0
                THEN {<<e, "heater">> : e \in Round2Set(environment_temp_in + ac, 1)}
                ELSE {<<e, "cooler">> : e \in Round2Set(environment_temp_in - ac, 1)}
              : ac \in applied }

----------------------------------------------------------------------------
(* __main__: the default configuration                                     *)

Terms == {"negative", "zero", "positive"}

error_function ==
    append(append(append(NoFormulas,
        "negative", <<-1000, -999, -2, 0>>).formulas,
        "zero", <<-2, 0, 2>>).formulas,
        "positive", <<0, 2, 999, 1000>>).formulas

error_dot_function ==
    append(append(append(NoFormulas,
        "negative", <<-1000, -999, -5, 0>>).formulas,
        "zero", <<-50, 0, 5>>).formulas,
        "positive", <<0, 5, 999, 1000>>).formulas

temp_function ==
    append(append(append(NoFormulas,
        "cooler", <<-1000, -999, -50, 0>>).formulas,
        "no_change", <<-50, 0, 50>>).formulas,
        "heater", <<0, 50, 999, 1000>>).formulas

----------------------------------------------------------------------------
(* class ThermalControl                                                    *)

number_of_temps == 200
HistoryLen == 50
Samples == 1 .. number_of_temps

\* self.temperature = np.linspace(-100, 100, 200): sample i (from 1) is
\* -100 + (i-1) * 200/199 = TempNum(i) / TEMPDEN.
TEMPDEN == number_of_temps - 1
TempNum(i) == 200 * (i - 1) - 100 * TEMPDEN

\* target - environment, and previous - current.
\* A number with three decimals that a double holds exactly: a multiple of
\* 1/8.  A difference of two such doubles is exact; any other difference of
\* doubles is rounded, on either side of the difference of the decimals.
Representable(x) == x % (UNIT \div 8) = 0
FloatDifference(a_exact, b_exact) ==
    IF a_exact /\ b_exact THEN "exact" ELSE "inexact"

ErrorOfReversed(target, environment) == environment - target
ErrorOf(target, environment) == target - environment
ChangeOfErrorReversed(previous, current) == current - previous
ChangeOfError(previous, current) == previous - current

\* The output term each rule of `table` clips (lines 168-182).
RuleConsequentTransposed(e, r) ==
    CASE e = "positive" -> "heater"
      [] e = "negative" -> "cooler"
      [] e = "zero" /\ r = "positive" -> "heater"
      [] e = "zero" /\ r = "zero" -> "no_change"
      [] e = "zero" /\ r = "negative" -> "cooler"

RuleConsequent(e, r) ==
    CASE e = "positive" -> "heater"
      [] e = "negative" -> "cooler"
      [] e = "zero" /\ r = "positive" -> "cooler"
      [] e = "zero" /\ r = "zero" -> "no_change"
      [] e = "zero" /\ r = "negative" -> "heater"

\* One entry of `table`: the consequent's curve clipped at the rule's
\* strength, over samples lo .. hi (built by halves).
RECURSIVE CurveOver(_, _, _, _)
CurveOver(term, strength, lo, hi) ==
    IF lo = hi
    THEN <<Min2(fuzzify_from(temp_function, term, TempNum(lo), TEMPDEN).value, strength)>>
    ELSE LET mid == (lo + hi) \div 2
         IN  CurveOver(term, strength, lo, mid) \o CurveOver(term, strength, mid + 1, hi)

Rule(e, r, error_degree, error_dot_degree) ==
    CurveOver(RuleConsequent(e, r), Min2(error_degree[e], error_dot_degree[r]),
              1, number_of_temps)

\* The dict `table` (lines 167-183).
Table(error_degree, error_dot_degree) ==
    [positive |->
        [positive |-> Rule("positive", "positive", error_degree, error_dot_degree),
         zero     |-> Rule("positive", "zero", error_degree, error_dot_degree),
         negative |-> Rule("positive", "negative", error_degree, error_dot_degree)],
     negative |->
        [positive |-> Rule("negative", "positive", error_degree, error_dot_degree),
         zero     |-> Rule("negative", "zero", error_degree, error_dot_degree),
         negative |-> Rule("negative", "negative", error_degree, error_dot_degree)],
     zero |->
        [positive |-> Rule("zero", "positive", error_degree, error_dot_degree),
         zero     |-> Rule("zero", "zero", error_degree, error_dot_degree),
         negative |-> Rule("zero", "negative", error_degree, error_dot_degree)]]

MaxOf(S) == CHOOSE m \in S : \A x \in S : x <= m

\* self.aggregation: the pointwise maximum of the nine curves, over samples
\* lo .. hi (built by halves).
RECURSIVE AggregateOver(_, _, _)
AggregateOver(t, lo, hi) ==
    IF lo = hi
    THEN <<MaxOf({t[e][r][lo] : e \in Terms, r \in Terms})>>
    ELSE LET mid == (lo + hi) \div 2
         IN  AggregateOver(t, lo, mid) \o AggregateOver(t, mid + 1, hi)

Aggregate(t) == AggregateOver(t, 1, number_of_temps)

\* The sum of a[lo .. hi], by halves.
RECURSIVE SumOver(_, _, _)
SumOver(a, lo, hi) ==
    IF lo = hi THEN a[lo]
    ELSE LET mid == (lo + hi) \div 2
         IN  SumOver(a, lo, mid) + SumOver(a, mid + 1, hi)

\* denominator = np.sum(self.aggregation), in DEG units.
Denominator(a) == SumOver(a, 1, number_of_temps)

\* Exact quotients without leaving 32 bits: <<f, r>> stands for f + r/D with
\* 0 <= r < D.
AddFrac(p, q, D) ==
    IF p[2] >= D - q[2] THEN <<p[1] + q[1] + 1, p[2] - (D - q[2])>>
    ELSE <<p[1] + q[1], p[2] + q[2]>>

RECURSIVE MulFrac(_, _, _)
MulFrac(k, r, D) ==
    IF k = 0 THEN <<0, 0>>
    ELSE LET h == MulFrac(k \div 2, r, D)
             d == AddFrac(h, h, D)
         IN  IF k % 2 = 1 THEN AddFrac(d, <<0, r>>, D) ELSE d

\* The sum over samples lo .. hi of a[j] * TempNum(j) / 100, divided by D.
RECURSIVE WeightedOver(_, _, _, _)
WeightedOver(a, lo, hi, D) ==
    IF lo = hi
    THEN LET t == a[lo] * (TempNum(lo) \div 100) IN <<t \div D, t % D>>
    ELSE LET mid == (lo + hi) \div 2
         IN  AddFrac(WeightedOver(a, lo, mid, D), WeightedOver(a, mid + 1, hi, D), D)

\* round(numerator / denominator, 2) for a nonzero denominator: the possible
\* values of self.COG.  numerator/denominator = 100 * W / TEMPDEN degrees with
\* W = WeightedOver(...), so COG in hundredths is 10000 * W / TEMPDEN, rounded.
CentroidSet(a) ==
    LET D == Denominator(a)
        w == WeightedOver(a, 1, number_of_temps, D)
        m == MulFrac(100 * 100, w[2], D)
        T == 100 * 100 * w[1] + m[1]       \* 10000 * W = T + m[2]/D
        c0 == T \div TEMPDEN
        t == T % TEMPDEN
        \* the fraction above c0 is (t + m[2]/D) / TEMPDEN; compare it with 1/2
        twice == 2 * t + (IF m[2] >= D - m[2] THEN 1 ELSE 0)
        exact == (2 * t + 1 = TEMPDEN) /\ (m[2] = D - m[2])
    IN  IF exact THEN {CENT * c0, CENT * (c0 + 1)}
        ELSE IF twice >= TEMPDEN THEN {CENT * (c0 + 1)}
        ELSE {CENT * c0}

\* record_history: pop(0), then append.
HistoryPushNoPop(history, value) == Append(history, value)
HistoryPush(history, value) == Append(Tail(history), value)

\* The tail of calculate_change (lines 191-200): from the aggregated curve,
\* the possible (COG, environment_temp, action) outcomes.
DefuzzifyAndActuateNoReturn(a, cog, env) ==
    IF Denominator(a) = 0
    THEN {[COG |-> cog, env |-> r[1], action |-> r[2]] : r \in apply_change(env, cog)}
    ELSE UNION { {[COG |-> c, env |-> r[1], action |-> r[2]] : r \in apply_change(env, c)}
                 : c \in CentroidSet(a) }

DefuzzifyAndActuate(a, cog, env) ==
    IF Denominator(a) = 0
    THEN {[COG |-> cog, env |-> env, action |-> "no_change"]}
    ELSE UNION { {[COG |-> c, env |-> r[1], action |-> r[2]] : r \in apply_change(env, c)}
                 : c \in CentroidSet(a) }

----------------------------------------------------------------------------
(* Inputs                                                                  *)

\* (--temp, --init) pairs: the spec's scenario; an error exactly on the outer
\* edge of the error terms (1000.0 - 0.0, an exact double); an initial
\* temperature with a third decimal; an error beyond the edge that a typed
\* target of 20.3 lowers by exactly 1000 (1020.3 - 0.2 and 20.3 - 0.2,
\* rounded doubles).
Configs == {<<25 * UNIT, 0>>, <<1000 * UNIT, 0>>, <<20120, 20123>>,
            <<1020300, 200>>}

\* What float(input(...)) does when 'c' is pressed: raises ValueError (text
\* that is no number), returns a number, or input() itself raises EOFError
\* (end of file at the prompt).
TypedInputs == {[raises |-> "ValueError", value |-> 0],
                [raises |-> "none", value |-> 30 * UNIT],
                [raises |-> "none", value |-> 20300],
                [raises |-> "none", value |-> 2000 * UNIT],
                [raises |-> "EOFError", value |-> 0]}

KeySets == SUBSET {"c", "q"}

MFNames == {"low", "high"}
\* point lists of 0, 1, 2, 3, 4, 5 and 6 points, non-decreasing, with and
\* without a zero-width ramp
MFPointLists ==
    { <<>>, <<0>>, <<0, 5>>,
      <<-5, 0, 5>>, <<0, 0, 5>>, <<-5, 5, 5>>,
      <<-5, 0, 5, 10>>, <<-5, 0, 0, 5>>, <<-5, -5, 0, 5>>, <<-5, 0, 5, 5>>,
      <<-5, 0, 5, 10, 15>>, <<-5, 0, 5, 10, 15, 20>> }
MFInputs == {-6 * UNIT, -5 * UNIT, -2500, 0, 1 * UNIT, 5 * UNIT, 7 * UNIT}

PlantEnvs == {0, 20120, 20123, 20125, 20127, -3004, 24450, 99 * UNIT}
PlantOutputs == {-9, -5, 0, 5, 9, 10, -10, 160, 170, 500, -1500, 61370, -4050,
                 100 * UNIT, -150 * UNIT}

----------------------------------------------------------------------------
(* Initial states                                                          *)

\* ThermalControl.__init__ (lines 134-154) with the run's history variables.
LoopInit(command, init) ==
    /\ target_temp = command
    /\ environment_temp = init
    /\ current_error = ErrorOf(command, init)
    /\ previous_error = 0
    /\ change_error = ChangeOfError(0, ErrorOf(command, init))
    /\ current_error_fp = FloatDifference(Representable(command), Representable(init))
    /\ change_error_fp = FloatDifference(TRUE, current_error_fp = "exact")
    /\ aggregation = <<>>
    /\ table = <<>>
    /\ temperature_history = [i \in 1 .. HistoryLen |-> init]
    /\ COG = 0
    /\ action = "none"
    /\ pc = "calculate_change"
    /\ keys = {}
    /\ initial_temp = init
    /\ steps = 0
    /\ committed = <<>>
    /\ nkeys = 0

MFInit ==
    /\ mf_formulas = NoFormulas
    /\ mf_raised = "none"
    /\ mf_degree = 0
    /\ mf_call = [op |-> "__init__", name |-> "", points |-> <<>>, x |-> 0]

PlantIdle ==
    /\ plant_env = 0
    /\ plant_crisp = 0
    /\ plant_result = <<0, "pending">>

Init ==
    /\ \E c \in Configs : LoopInit(c[1], c[2])
    /\ MFInit
    /\ PlantIdle

----------------------------------------------------------------------------
(* The main simulation loop (lines 257-261)                                *)

calculate_change(limit) ==
    /\ pc = "calculate_change"
    /\ steps < limit
    /\ \E error_degree \in DegreesAt(error_function, current_error, UNIT,
                                      current_error_fp),
          error_dot_degree \in DegreesAt(error_dot_function, change_error, UNIT,
                                          change_error_fp) :
        table' = Table(error_degree, error_dot_degree)
    /\ aggregation' = Aggregate(table')
    /\ \E o \in DefuzzifyAndActuate(aggregation', COG, environment_temp) :
        /\ COG' = o.COG
        /\ environment_temp' = o.env
        /\ action' = o.action
    /\ pc' = "calculate_error"
    /\ UNCHANGED <<target_temp, current_error, previous_error, change_error,
                   current_error_fp, change_error_fp,
                   temperature_history, keys, initial_temp, steps, committed, nkeys>>
    /\ UNCHANGED <<mfVars, plantVars>>

calculate_error ==
    /\ pc = "calculate_error"
    /\ previous_error' = current_error
    /\ current_error' = ErrorOf(target_temp, environment_temp)
    /\ change_error' = ChangeOfError(current_error, ErrorOf(target_temp, environment_temp))
    /\ current_error_fp' = FloatDifference(Representable(target_temp),
                                           Representable(environment_temp))
    /\ change_error_fp' = FloatDifference(current_error_fp = "exact",
                                          current_error_fp' = "exact")
    /\ pc' = "check_key"
    /\ UNCHANGED <<target_temp, environment_temp, table, aggregation,
                   temperature_history, COG, action, keys, initial_temp, steps,
                   committed, nkeys>>
    /\ UNCHANGED <<mfVars, plantVars>>

\* check_key: 'c' asks for a new target, then 'q' exits.  A ValueError of
\* float() is caught and leaves the target; any other exception of input()
\* (EOFError) is not caught: it leaves check_key before 'q' is polled and ends
\* the program, the iteration unfinished.
check_key(pressable) ==
    /\ pc = "check_key"
    /\ \E ks \in pressable, typed \in TypedInputs :
        LET uncaught == "c" \in ks /\ typed.raises = "EOFError"
        IN  /\ ks # {} => nkeys < MaxKeys
            /\ keys' = IF uncaught THEN {"c"} ELSE ks
            /\ nkeys' = IF ks # {} THEN nkeys + 1 ELSE nkeys
            /\ target_temp' = IF "c" \in ks /\ typed.raises = "none" THEN typed.value
                              ELSE target_temp
            /\ pc' = IF uncaught THEN "raised"
                     ELSE IF "q" \in ks THEN "exit"
                     ELSE "record_history"
    /\ UNCHANGED <<environment_temp, current_error, previous_error, change_error,
                   current_error_fp, change_error_fp,
                   table, aggregation, temperature_history, COG, action,
                   initial_temp, steps, committed>>
    /\ UNCHANGED <<mfVars, plantVars>>

record_history(logged) ==
    /\ pc = "record_history"
    /\ temperature_history' = HistoryPush(temperature_history, environment_temp)
    /\ IF logged
       THEN /\ steps' = steps + 1
            /\ committed' = Append(committed, environment_temp)
       ELSE UNCHANGED <<steps, committed>>
    /\ pc' = "calculate_change"
    /\ UNCHANGED <<target_temp, environment_temp, current_error, previous_error,
                   change_error, current_error_fp, change_error_fp,
                   table, aggregation, COG, action, keys,
                   initial_temp, nkeys>>
    /\ UNCHANGED <<mfVars, plantVars>>

Next ==
    \/ calculate_change(MaxSteps)
    \/ calculate_error
    \/ check_key(KeySets)
    \/ record_history(TRUE)

Spec == Init /\ [][Next]_vars

\* Undisturbed runs (no key ever pressed) of every configuration, long enough
\* to turn the history buffer over.
NextRun ==
    \/ calculate_change(MaxRunSteps)
    \/ calculate_error
    \/ check_key({{}})
    \/ record_history(TRUE)

SpecRun == Init /\ [][NextRun]_vars

\* The spec's scenario left alone: target 25, initial 0, no key ever pressed.
\* The loop never waits on anything but its own sleep, so it keeps stepping.
InitConverge ==
    /\ LoopInit(25 * UNIT, 0)
    /\ MFInit
    /\ PlantIdle

NextConverge ==
    \/ calculate_change(steps + 1)
    \/ calculate_error
    \/ check_key({{}})
    \/ record_history(FALSE)

\* The loop sleeps and polls but never blocks: from every position it moves on
\* to another one.
LoopAdvances == pc' \in {"calculate_change", "calculate_error", "check_key",
                         "record_history"} /\ pc' # pc

SpecConverge == InitConverge /\ [][NextConverge]_vars /\ WF_pc(LoopAdvances)

----------------------------------------------------------------------------
(* MembershipFunction.append and fuzzify_from on a function being built    *)

MFAppend ==
    /\ \E name \in MFNames, points \in MFPointLists :
        LET r == append(mf_formulas, name, points)
        IN  /\ mf_formulas' = r.formulas
            /\ mf_raised' = r.raised
            /\ mf_call' = [op |-> "append", name |-> name, points |-> points, x |-> 0]
    /\ UNCHANGED mf_degree
    /\ UNCHANGED <<loopVars, plantVars>>

MFFuzzify ==
    /\ \E name \in MFNames, x \in MFInputs :
        LET r == fuzzify_from(mf_formulas, name, x, UNIT)
        IN  /\ mf_raised' = r.raised
            /\ mf_degree' = IF r.raised = "none" THEN r.value ELSE mf_degree
            /\ mf_call' = [op |-> "fuzzify_from", name |-> name, points |-> <<>>, x |-> x]
    /\ UNCHANGED mf_formulas
    /\ UNCHANGED <<loopVars, plantVars>>

InitMF ==
    /\ LoopInit(0, 0)
    /\ MFInit
    /\ PlantIdle

NextMF == MFAppend \/ MFFuzzify

SpecMF == InitMF /\ [][NextMF]_vars

----------------------------------------------------------------------------
(* Plant.apply_change as a function of its arguments                       *)

InitPlant ==
    /\ LoopInit(0, 0)
    /\ MFInit
    /\ plant_env \in PlantEnvs
    /\ plant_crisp \in PlantOutputs
    /\ plant_result = <<plant_env, "pending">>

PlantApply ==
    /\ plant_result[2] = "pending"
    /\ plant_result' \in apply_change(plant_env, plant_crisp)
    /\ UNCHANGED <<plant_env, plant_crisp>>
    /\ UNCHANGED <<loopVars, mfVars>>

NextPlant == PlantApply

SpecPlant == InitPlant /\ [][NextPlant]_vars

----------------------------------------------------------------------------
(* Properties                                                              *)

\* The rule matrix as spec.md section 4.2 prints it.
ClaimedRuleMatrix ==
    [positive |-> [negative |-> "heater", zero |-> "heater", positive |-> "heater"],
     zero     |-> [negative |-> "cooler", zero |-> "no_change", positive |-> "heater"],
     negative |-> [negative |-> "cooler", zero |-> "cooler", positive |-> "cooler"]]

\* The same with the zero row's two outer entries exchanged.
ExchangedRuleMatrix ==
    [positive |-> [negative |-> "heater", zero |-> "heater", positive |-> "heater"],
     zero     |-> [negative |-> "heater", zero |-> "no_change", positive |-> "cooler"],
     negative |-> [negative |-> "cooler", zero |-> "cooler", positive |-> "cooler"]]

\* Every entry of `table` is the matrix's output term for its pair, clipped at
\* the pair's strength for the inputs the inference was run with.
ClippedAs(matrix) ==
    \E error_degree \in DegreesAt(error_function, current_error, UNIT,
                                   current_error_fp),
       error_dot_degree \in DegreesAt(error_dot_function, change_error, UNIT,
                                       change_error_fp) :
        \A e \in Terms, r \in Terms, i \in Samples :
            table[e][r][i] =
                Min2(fuzzify_from(temp_function, matrix[e][r], TempNum(i), TEMPDEN).value,
                     Min2(error_degree[e], error_dot_degree[r]))

\* C1 (as claimed): after calculate_change, each of the 9 rules has clipped
\* the output term of the printed matrix: zero error gives cooler for a
\* negative rate and heater for a positive rate.
C1_ClaimedMatrix == pc = "calculate_error" => ClippedAs(ClaimedRuleMatrix)

\* C1 (amended): after calculate_change, each of the 9 rules has clipped:
\* heater for positive error, cooler for negative error, and for zero error
\* heater when the rate is negative, no_change when it is zero, cooler when it
\* is positive.
C1_RuleMatrix == pc = "calculate_error" => ClippedAs(ExchangedRuleMatrix)

\* A zero-error, positive-rate rule that fired: its curve is the cooler curve
\* (nonzero at -100, zero at +100).
C1_Witness ==
    /\ pc = "calculate_error"
    /\ table["zero"]["positive"][1] > 0
    /\ table["zero"]["positive"][number_of_temps] = 0

\* The last n entries of a sequence.
LastN(q, n) == SubSeq(q, Len(q) - n + 1, Len(q))

\* C2: temperature_history always has HistoryLen entries, and they are the
\* HistoryLen most recent committed temperatures, oldest first, preceded by
\* the initial temperature while fewer than HistoryLen steps have run.
C2_History ==
    /\ Len(temperature_history) = HistoryLen
    /\ temperature_history =
          LastN([i \in 1 .. HistoryLen |-> initial_temp] \o committed, HistoryLen)

\* More than HistoryLen steps have run, the temperature moved meanwhile, and
\* nothing of the initial fill is left.
C2_Witness ==
    /\ steps > HistoryLen
    /\ temperature_history = LastN(committed, HistoryLen)
    /\ temperature_history[1] # temperature_history[HistoryLen]
    /\ temperature_history[1] # initial_temp

\* C3: once an iteration has started calculate_change, no set_target changes
\* target_temp and nothing (a quit, an exception of the prompt) ends the loop
\* until the iteration has completed calculate_error and record_history.
MidStep == {"calculate_error", "check_key", "record_history"}
C3_StepAtomic ==
    [][(pc \in MidStep) => (target_temp' = target_temp /\ pc' \notin {"exit", "raised"})]_vars

\* C4 (as claimed): for |crisp_output| < 0.01 apply_change returns no_change
\* and the environment temperature it was passed.
C4_DeadBandUnchanged ==
    (plant_result[2] # "pending" /\ Abs(plant_crisp) < CENT)
        => (plant_result[2] = "no_change" /\ plant_result[1] = plant_env)

\* C4 (amended): for |crisp_output| < 0.01 apply_change returns no_change and
\* the environment temperature it was passed rounded to 2 decimals (the same
\* value when it has no more than 2 decimals).
C4_DeadBandRounded ==
    (plant_result[2] # "pending" /\ Abs(plant_crisp) < CENT)
        => /\ plant_result[2] = "no_change"
           /\ plant_result[1] % CENT = 0
           /\ 2 * Abs(plant_result[1] - plant_env) <= CENT
           /\ plant_env % CENT = 0 => plant_result[1] = plant_env

\* A negative output inside the dead band, and a temperature with a third
\* decimal that came back rounded.
C4_Witness ==
    /\ plant_crisp = -5
    /\ plant_env = 20123
    /\ plant_result = <<20120, "no_change">>

\* C5: a calculate_change whose aggregated curve sums to 0 returns no_change
\* and leaves COG and environment_temp as they were.
C5_Degenerate ==
    [][(pc = "calculate_change" /\ pc' = "calculate_error"
            /\ Denominator(aggregation') = 0)
        => (action' = "no_change" /\ COG' = COG
            /\ environment_temp' = environment_temp)]_vars

\* A degenerate step taken while COG holds an earlier nonzero value.
C5_Witness ==
    /\ pc = "calculate_error"
    /\ Denominator(aggregation) = 0
    /\ action = "no_change"
    /\ COG # 0

\* The first inference of the scenario target=25, initial=0.
FirstStepIn == steps = 0 /\ initial_temp = 0 /\ target_temp = 25 * UNIT
                /\ pc = "calculate_change"
FirstStepOut == steps = 0 /\ initial_temp = 0 /\ target_temp = 25 * UNIT
                /\ pc = "calculate_error"

\* C6 (as claimed): the first step runs with current_error = 25 and
\* change_in_error = 25, and gives heater with the temperature increased.
C6_FirstStepClaimed ==
    /\ FirstStepIn => (current_error = 25 * UNIT /\ change_error = 25 * UNIT
                       /\ previous_error = 0)
    /\ FirstStepOut => (action = "heater" /\ environment_temp > initial_temp)

\* C6 (amended): the first step runs with current_error = 25 and
\* change_in_error = previous_error - current_error = -25, and gives heater
\* with the temperature increased.
C6_FirstStep ==
    /\ FirstStepIn => (current_error = 25 * UNIT /\ change_error = -25 * UNIT
                       /\ previous_error = 0)
    /\ FirstStepOut => (action = "heater" /\ environment_temp > initial_temp
                        /\ current_error = 25 * UNIT /\ change_error = -25 * UNIT)

\* The first step of the scenario has acted: heater, from 0 to 1.84.
C6_Witness ==
    /\ FirstStepOut
    /\ action = "heater"
    /\ environment_temp = 1840

\* C7 (as claimed): |current_error| never grows from one step to the next,
\* and eventually every action is no_change.
C7_MonotoneConvergence ==
    /\ [][pc = "calculate_error" => Abs(current_error') <= Abs(current_error)]_vars
    /\ <>[](action = "no_change")

\* C7 (amended): eventually every action is no_change, with the environment
\* temperature constant at the target, and |current_error| never exceeds its
\* initial value on the way (it is not monotone).
C7_Convergence ==
    /\ [](Abs(current_error) <= 25 * UNIT)
    /\ <>[](action = "no_change" /\ environment_temp = target_temp)

\* The settled loop: at the target after a heater step had overshot it.
C7_Witness ==
    /\ pc = "check_key"
    /\ action = "no_change"
    /\ environment_temp = target_temp
    /\ current_error = 0
    /\ previous_error = 0
    /\ \E i \in 1 .. HistoryLen : temperature_history[i] > target_temp

\* A registered term with a zero-width ramp: a == b, or the last two equal.
ZeroWidth(p) == p[1] = p[2] \/ p[Len(p) - 1] = p[Len(p)]

\* C8: fuzzify_from on a term with a zero-width ramp returns a degree in
\* [0, 1] and raises nothing.
C8_ZeroWidthSafe ==
    (/\ mf_call.op = "fuzzify_from"
     /\ mf_call.name \in DOMAIN mf_formulas
     /\ ZeroWidth(mf_formulas[mf_call.name]))
        => (mf_raised = "none" /\ mf_degree \in 0 .. DEG)

\* C9: append raises InvalidPoints exactly when the number of points is not
\* 3 or 4, and then leaves the formulas as they were; otherwise it registers
\* the points under the name, replacing an earlier definition, and leaves the
\* other formulas alone.
C9_Append ==
    [][mf_call'.op = "append" =>
        LET n == Len(mf_call'.points) IN
        /\ (mf_raised' = "InvalidPoints") <=> (n \notin {3, 4})
        /\ n \notin {3, 4} => mf_formulas' = mf_formulas
        /\ n \in {3, 4} =>
              /\ mf_raised' = "none"
              /\ DOMAIN mf_formulas' = DOMAIN mf_formulas \cup {mf_call'.name}
              /\ mf_formulas'[mf_call'.name] = mf_call'.points
              /\ \A k \in DOMAIN mf_formulas \ {mf_call'.name} :
                    mf_formulas'[k] = mf_formulas[k]]_vars

\* A 5-point list was refused while both names were registered.
C9_Witness ==
    /\ mf_call.op = "append"
    /\ Len(mf_call.points) = 5
    /\ mf_raised = "InvalidPoints"
    /\ DOMAIN mf_formulas = MFNames

\* C10 (as claimed): at the start of every calculate_change,
\* current_error = target_temp - environment_temp and
\* change_error = previous_error - current_error.
C10_ErrorConsistent ==
    pc = "calculate_change" =>
        /\ current_error = target_temp - environment_temp
        /\ change_error = previous_error - current_error

\* C10 (amended): at the start of every calculate_change,
\* change_error = previous_error - current_error, and
\* current_error = target_temp - environment_temp unless the check_key of
\* the iteration before found 'c' pressed: a target typed there reaches
\* current_error only with that iteration's calculate_error.
C10_ErrorConsistentBetweenTargets ==
    pc = "calculate_change" =>
        /\ change_error = previous_error - current_error
        /\ "c" \notin keys => current_error = target_temp - environment_temp

\* An inference that starts after a typed target has reached current_error.
C10_Witness ==
    /\ pc = "calculate_change"
    /\ target_temp = 30 * UNIT
    /\ keys = {}
    /\ current_error = target_temp - environment_temp
    /\ current_error # 0
    /\ previous_error # current_error

====
